---- MODULE Spec2Model ----
(***************************************************************************)
(* A model of cut-silence (src/src/cut_silence): the segment calculator of *)
(* analyzer.py, the output-path generator and the concatenator of          *)
(* concatenator.py, the command-line driver of cli.py and the progress     *)
(* runner of ffmpeg_runner.py.                                             *)
(*                                                                         *)
(* Times are whole ticks (the code's float seconds on a grid); an interval *)
(* is a pair <<start, end>>.  Each component has its own specification     *)
(* (SpecCalc, SpecPath, SpecConc, SpecMain, SpecRun); the variables        *)
(* of the other components stay at their initial values.                   *)
(***************************************************************************)
EXTENDS Integers, Sequences, FiniteSets, TLC

VARIABLES
    \* analyzer.py: VideoAnalyzer.calculate_non_silent_segments
    calc_pc,              \* "called" | "returned"
    silent_segments,      \* argument: sequence of <<start, end>>
    total_duration,       \* argument
    padding,              \* argument
    non_silent_segments   \* the returned list

VARIABLES
    \* concatenator.py: VideoConcatenator.generate_output_path
    gen_pc,               \* "called" | "loop" | "returned"
    files,                \* the names that exist in the input's directory
    input_stem,           \* input_path.stem
    suffix,               \* argument
    output_path,          \* local: the candidate name
    counter               \* local

VARIABLES
    \* concatenator.py: VideoConcatenator.concatenate_segments
    conc_pc,              \* where the call stands, "returned" and "raised" ending it
    segment_files,        \* argument: how many segment files the list holds
    show_progress,        \* argument
    estimated_duration,   \* local total_duration, from _estimate_total_duration
    out_before,           \* whether a file was at output_path when the call began
    out_file,             \* the file at output_path: "absent", "previous", "complete", "partial"
    concat_file,          \* the manifest: "none", "exists", "deleted"
    written,              \* manifest entries written so far
    engine_calls,         \* invocations of the engine (runner.run_with_progress)
    result,               \* <<result.returncode>> once the runner has returned, << >> before
    pending,              \* how the try block ended, kept while finally runs
    success               \* <<the value returned>>, << >> before the return

VARIABLES
    \* cli.py: main and validate_arguments
    main_pc,              \* "validate", "check_files", "loop", "done", "exited"
    input_files,          \* args.input_files: what each path is on disk
    output_given,         \* whether --output was given
    checked,              \* input files validate_arguments has passed
    processed,            \* the input files the loop of main has taken, in order
    exit_code             \* <<status>> once the process has ended, << >> before

VARIABLES
    \* ffmpeg_runner.py: FFmpegProgressRunner.run_with_progress
    run_pc,               \* "called", "reading", "waiting", "returned", "raised"
    run_total_duration,   \* argument total_duration
    run_show_progress,    \* argument show_progress
    pbar_open,            \* whether the tqdm bar of the call is open
    pbar_n,               \* pbar.n, the completion value on display
    stderr_lines,         \* the diagnostic lines kept so far
    process_returncode    \* <<returncode>> of the CompletedProcess, << >> before

VARIABLES
    \* progress.py: ProgressReporter
    rep_verbose,          \* self.verbose
    bars,                 \* the tqdm bars the reporter has created: [total, closed]
    current_bar           \* self.current_bar: <<index into bars>>, << >> for None

VARIABLES
    \* the child process of run_with_progress and its two pipes
    child,                \* "none", "running", "exited"
    script,               \* the writes the child has still to make, in its order
    stdout_pipe,          \* chunks in the stdout pipe, written and not yet read
    stderr_pipe,          \* lines in the stderr pipe, written and not yet read
    stdout_text           \* chunks of stdout the runner has read

calcVars == <<calc_pc, silent_segments, total_duration, padding, non_silent_segments>>
pathVars == <<gen_pc, files, input_stem, suffix, output_path, counter>>
concVars == <<conc_pc, segment_files, show_progress, estimated_duration, out_before,
              out_file, concat_file, written, engine_calls, result, pending, success>>

mainVars == <<main_pc, input_files, output_given, checked, processed, exit_code>>
runVars == <<run_pc, run_total_duration, run_show_progress, pbar_open, pbar_n,
             stderr_lines, process_returncode>>

repVars == <<rep_verbose, bars, current_bar>>
pipeVars == <<child, script, stdout_pipe, stderr_pipe, stdout_text>>

vars == <<calcVars, pathVars, concVars, mainVars, runVars, repVars, pipeVars>>

otherThanCalc == <<pathVars, concVars, mainVars, runVars, repVars, pipeVars>>
otherThanPath == <<calcVars, concVars, mainVars, runVars, repVars, pipeVars>>
otherThanConc == <<calcVars, pathVars, mainVars, runVars, repVars, pipeVars>>
otherThanMain == <<calcVars, pathVars, concVars, runVars, repVars, pipeVars>>
otherThanRun == <<calcVars, pathVars, concVars, mainVars, repVars, pipeVars>>
otherThanRep == <<calcVars, pathVars, concVars, mainVars, runVars, pipeVars>>
otherThanRunAndPipe == <<calcVars, pathVars, concVars, mainVars, repVars>>

----------------------------------------------------------------------------
(* Bounds of the model *)

MaxDuration == 4
MaxPadding == 2
MaxSilences == 2
MaxExisting == 3      \* the highest _N a name on disk carries
MaxSegments == 3      \* the longest segment list
MaxInputs == 3        \* the most input files on a command line
MaxLines == 3         \* the most diagnostic lines one engine run emits
MaxBars == 2          \* the most bars one reporter starts
MaxWrites == 4        \* the most writes one child process makes
PipeCapacity == 2     \* the writes a pipe holds before the writer blocks

----------------------------------------------------------------------------
(* A component that is not running: nothing called, nothing held *)

IdleCalc ==
    /\ calc_pc = "idle"
    /\ total_duration = 0
    /\ silent_segments = << >>
    /\ padding = 0
    /\ non_silent_segments = << >>

IdlePath ==
    /\ gen_pc = "idle"
    /\ files = {}
    /\ input_stem = ""
    /\ suffix = ""
    /\ output_path = ""
    /\ counter = 0

IdleConc ==
    /\ conc_pc = "idle"
    /\ segment_files = 0
    /\ show_progress = FALSE
    /\ estimated_duration = 0
    /\ out_before = FALSE
    /\ out_file = "absent"
    /\ concat_file = "none"
    /\ written = 0
    /\ engine_calls = 0
    /\ result = << >>
    /\ pending = "none"
    /\ success = << >>

IdleMain ==
    /\ main_pc = "idle"
    /\ input_files = << >>
    /\ output_given = FALSE
    /\ checked = 0
    /\ processed = << >>
    /\ exit_code = << >>

IdleRun ==
    /\ run_pc = "idle"
    /\ run_total_duration = 0
    /\ run_show_progress = FALSE
    /\ pbar_open = FALSE
    /\ pbar_n = 0
    /\ stderr_lines = << >>
    /\ process_returncode = << >>

IdleRep ==
    /\ rep_verbose = FALSE
    /\ bars = << >>
    /\ current_bar = << >>

IdlePipe ==
    /\ child = "none"
    /\ script = << >>
    /\ stdout_pipe = 0
    /\ stderr_pipe = << >>
    /\ stdout_text = 0

----------------------------------------------------------------------------
(* analyzer.py *)

\* A TimeInterval within [0, T]: end > start.
Intervals(T) == {iv \in (0..T) \X (0..T) : iv[1] < iv[2]}

\* The silence lists the detector hands over: ordered by start, non-overlapping.
SilenceReports(T) ==
    {s \in UNION {[1..n -> Intervals(T)] : n \in 0..MaxSilences} :
        \A i \in 1..(Len(s) - 1) : s[i][2] <= s[i + 1][1]}

\* A plausible implementation slip: the complement of the silence, padded,
\* neither clamped to the media bounds nor merged.
PaddedUnmerged(silent, total, pad) ==
    LET n == Len(silent)
        gap(i) == <<(IF i = 0 THEN 0 ELSE silent[i][2]) - pad,
                    (IF i = n THEN total ELSE silent[i + 1][1]) + pad>>
    IN [i \in 1..(n + 1) |-> gap(i - 1)]

\* VideoAnalyzer.calculate_non_silent_segments: the body is
\*     non_silent_segments = []
\*     return non_silent_segments
\* whatever the arguments.
calculate_non_silent_segments(silent, total, pad) == << >>

InitCalc ==
    /\ calc_pc = "called"
    /\ total_duration \in 0..MaxDuration
    /\ silent_segments \in SilenceReports(total_duration)
    /\ padding \in 0..MaxPadding
    /\ non_silent_segments = << >>
    /\ IdlePath /\ IdleConc /\ IdleMain /\ IdleRun /\ IdleRep /\ IdlePipe

Calculate ==
    /\ calc_pc = "called"
    /\ non_silent_segments' =
           calculate_non_silent_segments(silent_segments, total_duration, padding)
    /\ calc_pc' = "returned"
    /\ UNCHANGED <<silent_segments, total_duration, padding>>
    /\ UNCHANGED otherThanCalc

NextCalc == Calculate

SpecCalc == InitCalc /\ [][NextCalc]_vars

----------------------------------------------------------------------------
(* concatenator.py: generate_output_path *)

Stems == {"video", "clip"}
Suffixes == {"_cut", ""}
Ext == ".mp4"

\* f"{stem}{suffix}{ext}"
BaseName(stem, sfx, ext) == stem \o sfx \o ext

\* A plausible slip: the counter is bumped before it is used.
NumberedNameSkipping(stem, sfx, n, ext) ==
    stem \o sfx \o "_" \o ToString(n + 1) \o ext

\* f"{stem}{suffix}_{counter}{ext}"
NumberedName(stem, sfx, n, ext) == stem \o sfx \o "_" \o ToString(n) \o ext

\* Path.exists() against the directory's contents
exists(path) == path \in files

\* The names a directory may hold: inputs, and outputs of earlier runs.
Names ==
    {BaseName(st, sf, Ext) : st \in Stems, sf \in Suffixes}
    \cup {stem \o sfx \o "_" \o ToString(n) \o Ext :
             stem \in Stems, sfx \in {"_cut"}, n \in 1..MaxExisting}

InitPath ==
    /\ gen_pc = "called"
    /\ input_stem \in Stems
    /\ suffix \in Suffixes
    /\ files \in {fs \in SUBSET Names : BaseName(input_stem, "", Ext) \in fs}
    /\ output_path = ""
    /\ counter = 0
    /\ IdleCalc /\ IdleConc /\ IdleMain /\ IdleRun /\ IdleRep /\ IdlePipe

\* lines 177-185: stem, ext, parent; the base output path; counter = 1
GenStart ==
    /\ gen_pc = "called"
    /\ output_path' = BaseName(input_stem, suffix, Ext)
    /\ counter' = 1
    /\ gen_pc' = "loop"
    /\ UNCHANGED <<files, input_stem, suffix>>
    /\ UNCHANGED otherThanPath

\* lines 186-188: one turn of  while output_path.exists()
GenRename ==
    /\ gen_pc = "loop"
    /\ exists(output_path)
    /\ output_path' = NumberedName(input_stem, suffix, counter, Ext)
    /\ counter' = counter + 1
    /\ UNCHANGED <<gen_pc, files, input_stem, suffix>>
    /\ UNCHANGED otherThanPath

\* lines 186, 190: the loop's exit and  return output_path
GenReturn ==
    /\ gen_pc = "loop"
    /\ ~exists(output_path)
    /\ gen_pc' = "returned"
    /\ UNCHANGED <<files, input_stem, suffix, output_path, counter>>
    /\ UNCHANGED otherThanPath

NextPath == GenStart \/ GenRename \/ GenReturn

SpecPath == InitPath /\ [][NextPath]_vars

----------------------------------------------------------------------------
(* concatenator.py: concatenate_segments *)

\* What one invocation of the external engine can do.  The command of both
\* paths is  ffmpeg -y ... str(output_path)  (lines 55-62 and 91-100): the engine
\* writes to output_path itself.  It may fail to launch or fail while its
\* output is read (raises), exit 0 or not, be killed (-9), and leave at
\* output_path nothing new, a complete file or a part of one.
EngineOutcomes ==
    {o \in [raises : BOOLEAN, rc : {0, 1, -9}, writes : {"nothing", "complete", "partial"}] :
        /\ o.raises => o.rc = 1
        /\ (~o.raises /\ o.rc = 0) => o.writes # "partial"
        /\ (~o.raises /\ o.rc # 0) => o.writes # "complete"}

\* The file at output_path after the engine has run.
AfterEngine(file, o) == IF o.writes = "nothing" THEN file ELSE o.writes

\* A plausible slip: the exit status alone decides.
SuccessByExitStatus(rc, file) == rc = 0

\* lines 70 and 109:  success = result.returncode == 0 and output_path.exists()
Success(rc, file) == rc = 0 /\ file # "absent"

InitConc ==
    /\ conc_pc = "called"
    /\ segment_files \in 0..MaxSegments
    /\ show_progress \in BOOLEAN
    /\ out_before \in BOOLEAN
    /\ out_file = IF out_before THEN "previous" ELSE "absent"
    /\ estimated_duration = 0
    /\ concat_file = "none"
    /\ written = 0
    /\ engine_calls = 0
    /\ result = << >>
    /\ pending = "none"
    /\ success = << >>
    /\ IdleCalc /\ IdlePath /\ IdleMain /\ IdleRun /\ IdleRep /\ IdlePipe

\* lines 43-46:  if not segment_files: return False
ConcNoSegments ==
    /\ conc_pc = "called"
    /\ segment_files = 0
    /\ success' = <<FALSE>>
    /\ conc_pc' = "returned"
    /\ UNCHANGED <<segment_files, show_progress, estimated_duration, out_before, out_file,
                   concat_file, written, engine_calls, result, pending>>
    /\ UNCHANGED otherThanConc

\* lines 49, 125-164: _estimate_total_duration adds up the durations the probe
\* reports, skipping a segment whose probe fails; then the branch of line 54.
ConcEstimate ==
    /\ conc_pc = "called"
    /\ segment_files > 0
    /\ \E d \in 0..segment_files : estimated_duration' = d
    /\ conc_pc' = IF segment_files = 1 THEN "copy" ELSE "create_manifest"
    /\ UNCHANGED <<segment_files, show_progress, out_before, out_file, concat_file,
                   written, engine_calls, result, pending, success>>
    /\ UNCHANGED otherThanConc

\* lines 147-159: subprocess.run of the probe raises when the probe cannot be
\* launched; the except clause names only JSONDecodeError, ValueError, KeyError.
ConcEstimateRaises ==
    /\ conc_pc = "called"
    /\ segment_files > 0
    /\ conc_pc' = "raised"
    /\ UNCHANGED <<segment_files, show_progress, estimated_duration, out_before, out_file,
                   concat_file, written, engine_calls, result, pending, success>>
    /\ UNCHANGED otherThanConc

\* lines 54-79: one segment, copied by the engine straight to output_path
ConcCopy ==
    /\ conc_pc = "copy"
    /\ \E o \in EngineOutcomes :
        /\ engine_calls' = engine_calls + 1
        /\ out_file' = AfterEngine(out_file, o)
        /\ IF o.raises
           THEN /\ conc_pc' = "raised"
                /\ UNCHANGED <<result, success>>
           ELSE /\ result' = <<o.rc>>
                /\ success' = <<Success(o.rc, out_file')>>
                /\ conc_pc' = "returned"
    /\ UNCHANGED <<segment_files, show_progress, estimated_duration, out_before,
                   concat_file, written, pending>>
    /\ UNCHANGED otherThanConc

\* lines 82-83: NamedTemporaryFile(mode='w', suffix='.txt', delete=False)
ConcCreateManifest ==
    /\ conc_pc = "create_manifest"
    /\ concat_file' = "exists"
    /\ conc_pc' = "write_manifest"
    /\ UNCHANGED <<segment_files, show_progress, estimated_duration, out_before, out_file,
                   written, engine_calls, result, pending, success>>
    /\ UNCHANGED otherThanConc

\* line 82: the temporary file cannot be created; nothing is on disk
ConcCreateManifestRaises ==
    /\ conc_pc = "create_manifest"
    /\ conc_pc' = "raised"
    /\ UNCHANGED <<segment_files, show_progress, estimated_duration, out_before, out_file,
                   concat_file, written, engine_calls, result, pending, success>>
    /\ UNCHANGED otherThanConc

\* lines 84-87: one turn of the loop writing  file '<abs_path>'
ConcWriteEntry ==
    /\ conc_pc = "write_manifest"
    /\ written < segment_files
    /\ written' = written + 1
    /\ UNCHANGED <<conc_pc, segment_files, show_progress, estimated_duration, out_before,
                   out_file, concat_file, engine_calls, result, pending, success>>
    /\ UNCHANGED otherThanConc

\* lines 82-87: resolve(), f.write() or the close at the end of the with block
\* raises (a name the encoding cannot write, a full disk).  The with block is
\* outside the try of line 89 and the file was made with delete=False.
ConcWriteEntryRaises ==
    /\ conc_pc = "write_manifest"
    /\ conc_pc' = "raised"
    /\ UNCHANGED <<segment_files, show_progress, estimated_duration, out_before, out_file,
                   concat_file, written, engine_calls, result, pending, success>>
    /\ UNCHANGED otherThanConc

\* lines 87-89: the with block ends, the try block begins
ConcCloseManifest ==
    /\ conc_pc = "write_manifest"
    /\ written = segment_files
    /\ conc_pc' = "concat"
    /\ UNCHANGED <<segment_files, show_progress, estimated_duration, out_before, out_file,
                   concat_file, written, engine_calls, result, pending, success>>
    /\ UNCHANGED otherThanConc

\* lines 89-118: the engine's concat run and the success test, inside try
ConcConcat ==
    /\ conc_pc = "concat"
    /\ \E o \in EngineOutcomes :
        /\ engine_calls' = engine_calls + 1
        /\ out_file' = AfterEngine(out_file, o)
        /\ IF o.raises
           THEN /\ pending' = "raised"
                /\ UNCHANGED <<result, success>>
           ELSE /\ result' = <<o.rc>>
                /\ success' = <<Success(o.rc, out_file')>>
                /\ pending' = "returned"
    /\ conc_pc' = "finally"
    /\ UNCHANGED <<segment_files, show_progress, estimated_duration, out_before,
                   concat_file, written>>
    /\ UNCHANGED otherThanConc

\* lines 120-123: finally:  if concat_file.exists(): concat_file.unlink()
ConcFinally ==
    /\ conc_pc = "finally"
    /\ concat_file' = IF concat_file = "exists" THEN "deleted" ELSE concat_file
    /\ conc_pc' = pending
    /\ UNCHANGED <<segment_files, show_progress, estimated_duration, out_before, out_file,
                   written, engine_calls, result, pending, success>>
    /\ UNCHANGED otherThanConc

NextConc ==
    \/ ConcNoSegments
    \/ ConcEstimate
    \/ ConcEstimateRaises
    \/ ConcCopy
    \/ ConcCreateManifest
    \/ ConcCreateManifestRaises
    \/ ConcWriteEntry
    \/ ConcWriteEntryRaises
    \/ ConcCloseManifest
    \/ ConcConcat
    \/ ConcFinally

SpecConc == InitConc /\ [][NextConc]_vars

----------------------------------------------------------------------------
(* cli.py: main *)

\* What a path of args.input_files is on disk.
PathKinds == {"file", "missing", "directory"}

\* nargs="+": one input file at least
InitMain ==
    /\ main_pc = "validate"
    /\ input_files \in UNION {[1..n -> PathKinds] : n \in 1..MaxInputs}
    /\ output_given \in BOOLEAN
    /\ checked = 0
    /\ processed = << >>
    /\ exit_code = << >>
    /\ IdleCalc /\ IdlePath /\ IdleConc /\ IdleRun /\ IdleRep /\ IdlePipe

\* lines 119-120, 102-104: parse, then validate_arguments' first test:
\* --output with several input files is sys.exit(1)
ValidateOutput ==
    /\ main_pc = "validate"
    /\ IF output_given /\ Len(input_files) > 1
       THEN main_pc' = "exited" /\ exit_code' = <<1>>
       ELSE main_pc' = "check_files" /\ UNCHANGED exit_code
    /\ UNCHANGED <<input_files, output_given, checked, processed>>
    /\ UNCHANGED otherThanMain

\* lines 107-114: one turn of validate_arguments' loop over all input files:
\* a path that does not exist, or is not a file, is sys.exit(1)
ValidateFile ==
    /\ main_pc = "check_files"
    /\ checked < Len(input_files)
    /\ IF input_files[checked + 1] = "file"
       THEN checked' = checked + 1 /\ UNCHANGED <<main_pc, exit_code>>
       ELSE main_pc' = "exited" /\ exit_code' = <<1>> /\ UNCHANGED checked
    /\ UNCHANGED <<input_files, output_given, processed>>
    /\ UNCHANGED otherThanMain

\* lines 107, 122-129: validate_arguments returns, main goes on to its loop
ValidateDone ==
    /\ main_pc = "check_files"
    /\ checked = Len(input_files)
    /\ main_pc' = "loop"
    /\ UNCHANGED <<input_files, output_given, checked, processed, exit_code>>
    /\ UNCHANGED otherThanMain

\* lines 137-139: one turn of  for input_file in args.input_files, whose body
\* is  print(f"Processing: {input_file}")
ProcessFile ==
    /\ main_pc = "loop"
    /\ Len(processed) < Len(input_files)
    /\ processed' = Append(processed, Len(processed) + 1)
    /\ UNCHANGED <<main_pc, input_files, output_given, checked, exit_code>>
    /\ UNCHANGED otherThanMain

\* line 141: print("Done!") and the return of main
MainDone ==
    /\ main_pc = "loop"
    /\ Len(processed) = Len(input_files)
    /\ main_pc' = "done"
    /\ exit_code' = <<0>>
    /\ UNCHANGED <<input_files, output_given, checked, processed>>
    /\ UNCHANGED otherThanMain

NextMain == ValidateOutput \/ ValidateFile \/ ValidateDone \/ ProcessFile \/ MainDone

SpecMain == InitMain /\ [][NextMain]_vars

----------------------------------------------------------------------------
(* ffmpeg_runner.py: run_with_progress *)

\* The fields a  time=HH:MM:SS.ms  value of a diagnostic line may carry.
Hours == {0, 1}
Minutes == {0, 1}
Seconds == {0, 30}

\* A diagnostic line, by what TIME_PATTERN finds in it: << >> when nothing
\* matches, <<hours, minutes, seconds>> when a time= value does.
Lines == {<< >>} \cup (Hours \X Minutes \X Seconds)

\* The total_duration a caller passes (seconds).
Totals == {0, 60, 3660}

\* The exit status of the engine: success, failure, killed.
ExitStatuses == {0, 1, -9}

\* lines 107-123: _parse_time; << >> stands for None
parse_time(line) ==
    IF line = << >> THEN << >>
    ELSE <<line[1] * 3600 + line[2] * 60 + line[3]>>

\* lines 86-90: the completion value after one line
AfterLine(n, line, total) ==
    LET current_time == parse_time(line)
    IN IF current_time # << >> /\ current_time[1] <= total
       THEN current_time[1]
       ELSE n

InitRun ==
    /\ run_pc = "called"
    /\ run_total_duration \in Totals
    /\ run_show_progress \in BOOLEAN
    /\ pbar_open = FALSE
    /\ pbar_n = 0
    /\ stderr_lines = << >>
    /\ process_returncode = << >>
    /\ IdleCalc /\ IdlePath /\ IdleConc /\ IdleMain /\ IdleRep /\ IdlePipe

\* lines 50-58: no live display: subprocess.run to completion, output captured
RunSimple ==
    /\ run_pc = "called"
    /\ ~run_show_progress \/ run_total_duration <= 0
    /\ \E rc \in ExitStatuses : process_returncode' = <<rc>>
    /\ \E n \in 0..MaxLines : \E captured \in [1..n -> Lines] : stderr_lines' = captured
    /\ run_pc' = "returned"
    /\ UNCHANGED <<run_total_duration, run_show_progress, pbar_open, pbar_n>>
    /\ UNCHANGED otherThanRun

\* lines 52, 60: the engine cannot be launched
RunLaunchRaises ==
    /\ run_pc = "called"
    /\ run_pc' = "raised"
    /\ UNCHANGED <<run_total_duration, run_show_progress, pbar_open, pbar_n,
                   stderr_lines, process_returncode>>
    /\ UNCHANGED otherThanRun

\* lines 60-79: live mode: Popen, stderr_lines = [], the bar opened at 0
RunPopen ==
    /\ run_pc = "called"
    /\ run_show_progress /\ run_total_duration > 0
    /\ pbar_open' = TRUE
    /\ pbar_n' = 0
    /\ stderr_lines' = << >>
    /\ run_pc' = "reading"
    /\ UNCHANGED <<run_total_duration, run_show_progress, process_returncode>>
    /\ UNCHANGED otherThanRun

\* lines 82-90: one diagnostic line read, kept, parsed and shown
RunReadLine ==
    /\ run_pc = "reading"
    /\ Len(stderr_lines) < MaxLines
    /\ \E line \in Lines :
        /\ stderr_lines' = Append(stderr_lines, line)
        /\ pbar_n' = AfterLine(pbar_n, line, run_total_duration)
    /\ UNCHANGED <<run_pc, run_total_duration, run_show_progress, pbar_open,
                   process_returncode>>
    /\ UNCHANGED otherThanRun

\* lines 72-82: reading a line raises (bytes the text decoder refuses); the
\* with block closes the bar as the exception leaves it
RunReadRaises ==
    /\ run_pc = "reading"
    /\ pbar_open' = FALSE
    /\ run_pc' = "raised"
    /\ UNCHANGED <<run_total_duration, run_show_progress, pbar_n, stderr_lines,
                   process_returncode>>
    /\ UNCHANGED otherThanRun

\* lines 72-90: end of the diagnostic stream: the loop and the with block end
RunEndOfStream ==
    /\ run_pc = "reading"
    /\ pbar_open' = FALSE
    /\ run_pc' = "waiting"
    /\ UNCHANGED <<run_total_duration, run_show_progress, pbar_n, stderr_lines,
                   process_returncode>>
    /\ UNCHANGED otherThanRun

\* lines 93-105: process.wait(), the rest of stdout, the CompletedProcess
RunWait ==
    /\ run_pc = "waiting"
    /\ \E rc \in ExitStatuses : process_returncode' = <<rc>>
    /\ run_pc' = "returned"
    /\ UNCHANGED <<run_total_duration, run_show_progress, pbar_open, pbar_n, stderr_lines>>
    /\ UNCHANGED otherThanRun

NextRun ==
    \/ RunSimple
    \/ RunLaunchRaises
    \/ RunPopen
    \/ RunReadLine
    \/ RunReadRaises
    \/ RunEndOfStream
    \/ RunWait

SpecRun == InitRun /\ [][NextRun]_vars

----------------------------------------------------------------------------
(* progress.py: ProgressReporter, used by a caller that also runs the engine *)

\* The totals a caller passes to start_progress (a count of items).
BarTotals == {0, 3}

\* The truth value of self.current_bar in  if self.current_bar:  (lines 30, 47,
\* 52).  None is false; a tqdm bar defines __bool__ and __len__ and, its total
\* given, is true exactly when total > 0.
Truthy(bar, all) == bar # << >> /\ all[bar[1]].total > 0

\* tqdm.close() on the bar self.current_bar names
Closed(bar, all) == [all EXCEPT ![bar[1]].closed = TRUE]

\* The caller's own code runs: the runner has not begun, or has ended.
CallerRuns == run_pc \in {"called", "returned", "raised"}

\* The reporter after __init__ (lines 12-20) and the runner about to be called.
InitProgress ==
    /\ rep_verbose \in BOOLEAN
    /\ bars = << >>
    /\ current_bar = << >>
    /\ run_pc = "called"
    /\ run_total_duration \in Totals
    /\ run_show_progress \in BOOLEAN
    /\ pbar_open = FALSE
    /\ pbar_n = 0
    /\ stderr_lines = << >>
    /\ process_returncode = << >>
    /\ IdleCalc /\ IdlePath /\ IdleConc /\ IdleMain /\ IdlePipe

\* lines 22-38: start_progress: close the bar if self.current_bar is true,
\* then create the new one
StartProgress ==
    /\ CallerRuns
    /\ Len(bars) < MaxBars
    /\ \E total \in BarTotals :
        LET kept == IF Truthy(current_bar, bars) THEN Closed(current_bar, bars) ELSE bars
        IN /\ bars' = Append(kept, [total |-> total, closed |-> FALSE])
           /\ current_bar' = <<Len(bars) + 1>>
    /\ UNCHANGED rep_verbose
    /\ UNCHANGED otherThanRep

\* lines 50-54: finish_progress: close and forget the bar if self.current_bar
\* is true
FinishProgress ==
    /\ CallerRuns
    /\ IF Truthy(current_bar, bars)
       THEN /\ bars' = Closed(current_bar, bars)
            /\ current_bar' = << >>
       ELSE UNCHANGED <<bars, current_bar>>
    /\ UNCHANGED rep_verbose
    /\ UNCHANGED otherThanRep

NextProgress == StartProgress \/ FinishProgress \/ NextRun

SpecProgress == InitProgress /\ [][NextProgress]_vars

----------------------------------------------------------------------------
(* ffmpeg_runner.py: run_with_progress in live mode, with the child process  *)
(* and the two pipes of  Popen(cmd, stdout=PIPE, stderr=PIPE)  (lines 60-66) *)

\* The diagnostic lines a child writes here: one without and one with a time.
PipeLines == {<< >>, <<0, 0, 30>>}

\* One write of the child: a chunk to stdout, or a line to stderr.
Writes ==
    {[to |-> "stdout", line |-> << >>]} \cup {[to |-> "stderr", line |-> l] : l \in PipeLines}

\* A child that writes a finite amount and then exits: its writes, in order.
Scripts == UNION {[1..n -> Writes] : n \in 0..MaxWrites}

\* Live mode: show_progress and total_duration > 0 (line 50)
InitPipe ==
    /\ run_pc = "called"
    /\ run_total_duration \in Totals \ {0}
    /\ run_show_progress = TRUE
    /\ pbar_open = FALSE
    /\ pbar_n = 0
    /\ stderr_lines = << >>
    /\ process_returncode = << >>
    /\ child = "none"
    /\ script \in Scripts
    /\ stdout_pipe = 0
    /\ stderr_pipe = << >>
    /\ stdout_text = 0
    /\ IdleCalc /\ IdlePath /\ IdleConc /\ IdleMain /\ IdleRep

\* lines 60-79: Popen starts the child with both pipes; the bar opens at 0
PipePopen ==
    /\ run_pc = "called"
    /\ child' = "running"
    /\ pbar_open' = TRUE
    /\ pbar_n' = 0
    /\ stderr_lines' = << >>
    /\ run_pc' = "reading"
    /\ UNCHANGED <<run_total_duration, run_show_progress, process_returncode>>
    /\ UNCHANGED <<script, stdout_pipe, stderr_pipe, stdout_text>>
    /\ UNCHANGED otherThanRunAndPipe

\* The child's next write goes through when its pipe has room; a write to a
\* full pipe blocks the child until the reader takes something out.
ChildWrite ==
    /\ child = "running"
    /\ script # << >>
    /\ IF Head(script).to = "stdout"
       THEN /\ stdout_pipe < PipeCapacity
            /\ stdout_pipe' = stdout_pipe + 1
            /\ UNCHANGED stderr_pipe
       ELSE /\ Len(stderr_pipe) < PipeCapacity
            /\ stderr_pipe' = Append(stderr_pipe, Head(script).line)
            /\ UNCHANGED stdout_pipe
    /\ script' = Tail(script)
    /\ UNCHANGED <<child, stdout_text>>
    /\ UNCHANGED runVars
    /\ UNCHANGED otherThanRunAndPipe

\* The child has written everything: it exits, which closes its pipe ends.
ChildExit ==
    /\ child = "running"
    /\ script = << >>
    /\ child' = "exited"
    /\ UNCHANGED <<script, stdout_pipe, stderr_pipe, stdout_text>>
    /\ UNCHANGED runVars
    /\ UNCHANGED otherThanRunAndPipe

\* lines 82-90: for line in process.stderr: one line taken from the stderr
\* pipe, kept, parsed and shown.  With the pipe empty and the child alive the
\* read blocks.
PipeReadLine ==
    /\ run_pc = "reading"
    /\ stderr_pipe # << >>
    /\ stderr_lines' = Append(stderr_lines, Head(stderr_pipe))
    /\ pbar_n' = AfterLine(pbar_n, Head(stderr_pipe), run_total_duration)
    /\ stderr_pipe' = Tail(stderr_pipe)
    /\ UNCHANGED <<run_pc, run_total_duration, run_show_progress, pbar_open,
                   process_returncode>>
    /\ UNCHANGED <<child, script, stdout_pipe, stdout_text>>
    /\ UNCHANGED otherThanRunAndPipe

\* lines 72-90: end-of-file on stderr, which takes the pipe empty and its
\* write end closed: the loop and the with block end
PipeEndOfStream ==
    /\ run_pc = "reading"
    /\ stderr_pipe = << >>
    /\ child = "exited"
    /\ pbar_open' = FALSE
    /\ run_pc' = "waiting"
    /\ UNCHANGED <<run_total_duration, run_show_progress, pbar_n, stderr_lines,
                   process_returncode>>
    /\ UNCHANGED pipeVars
    /\ UNCHANGED otherThanRunAndPipe

\* lines 93-105: process.wait() returns once the child has exited; only then
\* process.stdout.read() empties the stdout pipe; the CompletedProcess
PipeWait ==
    /\ run_pc = "waiting"
    /\ child = "exited"
    /\ \E rc \in ExitStatuses : process_returncode' = <<rc>>
    /\ stdout_text' = stdout_text + stdout_pipe
    /\ stdout_pipe' = 0
    /\ run_pc' = "returned"
    /\ UNCHANGED <<run_total_duration, run_show_progress, pbar_open, pbar_n, stderr_lines>>
    /\ UNCHANGED <<child, script, stderr_pipe>>
    /\ UNCHANGED otherThanRunAndPipe

NextPipe ==
    \/ PipePopen
    \/ ChildWrite
    \/ ChildExit
    \/ PipeReadLine
    \/ PipeEndOfStream
    \/ PipeWait

\* Both processes are scheduled: a step that stays possible is taken.
SpecPipe == InitPipe /\ [][NextPipe]_vars /\ WF_vars(NextPipe)

----------------------------------------------------------------------------
(* Claims about analyzer.py *)

\* The complement of the silence within [0, total], zero-length gaps dropped.
Complement(silent, total) ==
    LET n == Len(silent)
        gaps == [i \in 1..(n + 1) |->
                    <<IF i = 1 THEN 0 ELSE silent[i - 1][2],
                      IF i = n + 1 THEN total ELSE silent[i][1]>>]
    IN SelectSeq(gaps, LAMBDA iv : iv[1] < iv[2])

\* C1: with an empty silence list and total_duration > 0 (any padding >= 0),
\* calculate_non_silent_segments returns exactly one interval, (0, total_duration).
C1_EmptySilenceGivesWholeFile ==
    (calc_pc = "returned" /\ silent_segments = << >> /\ total_duration > 0)
        => non_silent_segments = << <<0, total_duration>> >>

\* C2: with padding 0, calculate_non_silent_segments returns the complement of
\* the silence within [0, total_duration], zero-length gaps dropped.
C2_ZeroPaddingGivesComplement ==
    (calc_pc = "returned" /\ padding = 0)
        => non_silent_segments = Complement(silent_segments, total_duration)

----------------------------------------------------------------------------
(* Claims about concatenator.py: generate_output_path *)

\* The claim's sequence: stem+suffix+ext, stem+suffix+'_1'+ext, stem+suffix+'_2'+ext, ...
Candidate(k) ==
    IF k = 0 THEN input_stem \o suffix \o Ext
    ELSE input_stem \o suffix \o "_" \o ToString(k) \o Ext

\* C4: generate_output_path returns the first name of the candidate sequence
\* that does not exist: every earlier candidate exists, the returned one does not.
C4_FirstFreeCandidate ==
    gen_pc = "returned" =>
        \E k \in 0..(MaxExisting + 1) :
            /\ output_path = Candidate(k)
            /\ output_path \notin files
            /\ \A j \in 0..(k - 1) : Candidate(j) \in files

\* C4's case: video_cut.mp4 and video_cut_1.mp4 exist and video_cut_2.mp4 is returned.
C4_Witness ==
    /\ gen_pc = "returned"
    /\ input_stem = "video" /\ suffix = "_cut"
    /\ {"video_cut.mp4", "video_cut_1.mp4"} \subseteq files
    /\ output_path = "video_cut_2.mp4"

----------------------------------------------------------------------------
(* Claims about concatenator.py: concatenate_segments *)

ConcEnded == conc_pc \in {"returned", "raised"}

\* C5: concatenate_segments returns True exactly when the segment list is
\* non-empty, the engine exited with status 0 and the output file exists after
\* the invocation; with zero segments it returns False without invoking the
\* engine.  Both the copy path and the concat path.
C5_SuccessIffExitZeroAndOutput ==
    conc_pc = "returned" =>
        /\ success \in {<<TRUE>>, <<FALSE>>}
        /\ success = <<TRUE>>
             <=> (segment_files > 0 /\ result = <<0>> /\ out_file # "absent")
        /\ segment_files = 0 => (engine_calls = 0 /\ result = << >>)
        /\ segment_files > 0 => engine_calls = 1

\* C5's case: the concat path, the engine exited 0 and left no output: False.
C5_Witness ==
    /\ conc_pc = "returned"
    /\ segment_files >= 2
    /\ result = <<0>>
    /\ out_file = "absent"
    /\ success = <<FALSE>>

\* C6: called with two or more segments, the manifest the call created no
\* longer exists once the call has ended, on every exit path.
C6_ManifestGoneAfterCall ==
    (ConcEnded /\ segment_files >= 2) => concat_file # "exists"

\* C7: after a call that ended in failure no file is at the final output path
\* unless one was there before the call.
C7_NoOutputAfterFailure ==
    (ConcEnded /\ success # <<TRUE>> /\ ~out_before) => out_file = "absent"

----------------------------------------------------------------------------
(* Claims about cli.py *)

\* C8: in a multi-file run every input file is processed, one at a time and in
\* argument order; the failure of one file aborts only that file's job, the
\* later input files are still processed.
\* Stated for the input files that are there: a file that exists is processed
\* although another input of the run fails.
C8_EveryInputProcessed ==
    (main_pc \in {"done", "exited"} /\ Len(input_files) > 1 /\ ~output_given)
        => /\ \A i \in 1..Len(input_files) :
                input_files[i] = "file" => \E k \in 1..Len(processed) : processed[k] = i
           /\ \A k \in 1..(Len(processed) - 1) : processed[k] < processed[k + 1]

----------------------------------------------------------------------------
(* Claims about ffmpeg_runner.py *)

\* C9: during one live run the completion value on the bar never decreases,
\* whatever lines the engine emits, and stays within [0, total_duration].
C9_ProgressNeverDecreases ==
    /\ [][(run_pc = "reading" /\ run_pc' = "reading") => pbar_n' >= pbar_n]_vars
    /\ [](pbar_open => (0 <= pbar_n /\ pbar_n <= run_total_duration))

Min(a, b) == IF a <= b THEN a ELSE b

\* C10: in live mode each line carrying a time= value sets the completion
\* value to min(parsed time, total_duration): a time past the total is capped.
C10_TimeValueCapped ==
    [][(run_pc = "reading" /\ Len(stderr_lines') = Len(stderr_lines) + 1
            /\ parse_time(stderr_lines'[Len(stderr_lines')]) # << >>)
        => pbar_n' = Min(parse_time(stderr_lines'[Len(stderr_lines')])[1],
                         run_total_duration)]_vars

----------------------------------------------------------------------------
(* Claims about progress.py and the runner's bar *)

\* The bars of the reporter that are on display: open and not disabled
\* (disable=not self.verbose).
ReporterIndicators ==
    IF rep_verbose THEN {i \in 1..Len(bars) : ~bars[i].closed} ELSE {}

\* The progress indicators active: the reporter's and the runner's.
ActiveIndicators == Cardinality(ReporterIndicators) + (IF pbar_open THEN 1 ELSE 0)

\* C11: at every point at most one progress indicator is active: start_progress
\* closes the previous bar before it creates a new one, finish_progress leaves
\* none active, the runner's bar is never open together with a reporter's bar
\* and is closed when run_with_progress ends.
C11_AtMostOneIndicator ==
    /\ ActiveIndicators <= 1
    /\ run_pc \in {"returned", "raised"} => ~pbar_open

----------------------------------------------------------------------------
(* Claims about the runner and its child process *)

\* The runner waits in its read of stderr: nothing to read, the child alive.
RunnerBlockedOnStderr ==
    run_pc = "reading" /\ stderr_pipe = << >> /\ child = "running"

\* The child waits in a write to stdout: the pipe is full.
ChildBlockedOnStdout ==
    /\ child = "running"
    /\ script # << >>
    /\ Head(script).to = "stdout"
    /\ stdout_pipe = PipeCapacity

\* C12: run_with_progress in live mode returns for every child that writes a
\* finite amount to stdout and stderr and then exits: the runner is never
\* blocked for good on stderr with the child blocked on a full stdout pipe.
C12_NeverBlockedForever ==
    /\ ~(RunnerBlockedOnStderr /\ ChildBlockedOnStdout)
    /\ run_pc = "returned" \/ ENABLED NextPipe

====
